---- MODULE Spec2Model ----
(***************************************************************************)
(* Model of the paginating notifier client                                 *)
(* (src/src/notifier_client/web_app_notifier_client.py): the splitter      *)
(* __split_msg, the per-page primary retry loop of                         *)
(* __send_message_pagination, the classification __check_status and the   *)
(* fallback sender __send_emergency_message.                               *)
(*                                                                         *)
(* Strings are sequences of character codes.  The literal pieces of the    *)
(* f-strings are written out code by code; the characters of the caller's  *)
(* message are the codes 1001, 1002, ... (all distinct and none of them a  *)
(* literal's character), so that a lost, repeated or displaced character   *)
(* is visible.                                                             *)
(***************************************************************************)
EXTENDS Integers, Sequences, FiniteSets, TLC

\* ------------------------------------------------------------------ bounds
\* longest message a caller passes
MaxMsgLen == 70
\* largest retrying_number the constructor is given
MaxRetry == 2
\* smallest and largest max_msg_size the constructor is given
MinSize == 30
MaxSize == 34

\* ----------------------------------------------------- python values
\* An optional string / dict: None, or a value known by its str() text.
None == [none |-> TRUE, s |-> <<>>]
Str(s) == [none |-> FALSE, s |-> s]

\* str(v) as an f-string interpolates it: "None" for None
PyStr(v) == IF v.none THEN <<78, 111, 110, 101>> ELSE v.s

\* str(n) for a page number n >= 0: its decimal digits
RECURSIVE Digits(_)
Digits(n) == IF n < 10 THEN <<48 + n>> ELSE Digits(n \div 10) \o <<48 + (n % 10)>>

\* s[lo:hi] for 0 <= lo, 0 <= hi (python clamps both ends to len(s))
Min(a, b) == IF a < b THEN a ELSE b
Slice(s, lo, hi) == SubSeq(s, Min(lo, Len(s)) + 1, Min(hi, Len(s)))

\* "\nemergency_msg: "
EmergencyLabel == <<10, 101, 109, 101, 114, 103, 101, 110, 99, 121, 95, 109, 115, 103, 58, 32>>
\* "\namend: "
AmendLabel == <<10, 97, 109, 101, 110, 100, 58, 32>>
\* "\n#" and the closing "\n"
PageLabel == <<10, 35>>
NewLine == <<10>>

\* ------------------------------------------------------------- inputs
\* the caller's message of n characters
Body(n) == [i \in 1..n |-> 1000 + i]
Messages == {Body(n) : n \in 0..MaxMsgLen}
\* amend: None or the dict {'a': 1}
AmendDict == Str(<<123, 39, 97, 39, 58, 32, 49, 125>>)
Amends == {None, AmendDict}
\* emergency_msg: None (the default of send_message), '' or "@x"
Emergencies == {None, Str(<<>>), Str(<<64, 120>>)}

\* ------------------------------------------------------------ Message
\* dataclass Message(page, content, emergency = '', amend = None)
Message(page, content, emergency, amend) ==
    [page |-> page, content |-> content, emergency |-> emergency, amend |-> amend]

\* Message.message() evaluates len(self.emergency): a TypeError on None
MessageRaises(msg) == msg.emergency.none

\* mutant: the annotation is rendered on every page
MessageText_AlwaysAnnotated(msg) ==
    msg.content \o EmergencyLabel \o msg.emergency.s
        \o PageLabel \o Digits(msg.page) \o NewLine

\* Message.message(), defined when it does not raise
MessageText(msg) ==
    IF Len(msg.emergency.s) = 0
    THEN msg.content \o PageLabel \o Digits(msg.page) \o NewLine
    ELSE msg.content \o EmergencyLabel \o msg.emergency.s
             \o PageLabel \o Digits(msg.page) \o NewLine

\* ---------------------------------------------------------- __split_msg
\* mutant: the amendment is left out of the reserved text
mandatory_msg_NoAmend(amend, emergency_msg) ==
    EmergencyLabel \o PyStr(emergency_msg)

mandatory_msg(amend, emergency_msg) ==
    EmergencyLabel \o PyStr(emergency_msg) \o AmendLabel \o PyStr(amend)

first_message_size(max_msg_size, amend, emergency_msg) ==
    max_msg_size - Len(mandatory_msg(amend, emergency_msg))

\* raise Exception("Max size is to low")
SplitRaises(max_msg_size, amend, emergency_msg) ==
    first_message_size(max_msg_size, amend, emergency_msg) < 0

first_message(message, fms) == Slice(message, 0, fms)

\* mutant: the remainder starts one character late
rest_of_message_SkipsOne(message, fms) == Slice(message, fms + 1, Len(message))

rest_of_message(message, fms) == Slice(message, fms, Len(message))

\* mutant: range(0, len(rest) + 1, max_msg_size)
NumChunks_OneTooFar(rest, max_msg_size) == Len(rest) \div max_msg_size + 1

\* range(0, len(rest), max_msg_size): the number of its elements
NumChunks(rest, max_msg_size) == (Len(rest) + max_msg_size - 1) \div max_msg_size

\* the page built for the element i = page * max_msg_size of the range
RestPage(rest, max_msg_size, page) ==
    Message(page + 2,
            Slice(rest, page * max_msg_size, page * max_msg_size + max_msg_size),
            Str(<<>>), None)

split_msg(message, max_msg_size, amend, emergency_msg) ==
    LET fms  == first_message_size(max_msg_size, amend, emergency_msg)
        rest == rest_of_message(message, fms)
    IN  <<Message(1, first_message(message, fms), emergency_msg, amend)>>
        \o [k \in 1..NumChunks(rest, max_msg_size) |->
                RestPage(rest, max_msg_size, k - 1)]

\* --------------------------------------------------- WebAppNotifierClient
\* what a send function hands back: an int status, or the pair
\* (status, sending) of send_message_by_threshold; NoResult is python's None
IntResult(status) == [type |-> "int", status |-> status, sending |-> FALSE]
TupleResult(status, sending) == [type |-> "tuple", status |-> status, sending |-> sending]
NoResult == [type |-> "NoneType", status |-> 0, sending |-> FALSE]

\* status codes the two channels answer with
Statuses == {200, 500}
\* the primary server's HTTP answers: a status and the body's 'sending' field
Responses == [status : Statuses, sending : BOOLEAN]

SendFuncs == {"send_alert", "send_message", "send_message_by_threshold"}

\* WebAppNotifierClient.send_alert / send_message: the response's status_code
client_send(response) == IntResult(response.status)

\* WebAppNotifierClient.send_message_by_threshold
client_send_message_by_threshold(response) ==
    IF response.status # 200
    THEN TupleResult(response.status, FALSE)
    ELSE TupleResult(response.status, response.sending)

send_func_result(send_func, response) ==
    IF send_func = "send_message_by_threshold"
    THEN client_send_message_by_threshold(response)
    ELSE client_send(response)

\* -------------------------------------------------------- __check_status
\* type(result): the class of the value, "int" or "tuple"
PyType(result) == result.type
\* the name Tuple of the module is typing.Tuple, which no value has as its class
TypingTuple == "typing.Tuple"
\* result == 200 on an int or on a tuple (a tuple never equals an int)
EqualsInt(result, n) == result.type = "int" /\ result.status = n

check_status(result) ==
    IF PyType(result) = TypingTuple
    THEN result.status = 200
    ELSE EqualsInt(result, 200)

\* ---------------------------------------------- __send_emergency_message
\* retrying = 5, the default the pipeline always uses
FallbackRetrying == 5
\* "message: " and " amend: "
FbMessageLabel == <<109, 101, 115, 115, 97, 103, 101, 58, 32>>
FbAmendLabel == <<32, 97, 109, 101, 110, 100, 58, 32>>
\* data['text']
fallback_text(text, amend) == FbMessageLabel \o text \o FbAmendLabel \o PyStr(amend)
\* mutant: the status code compared with the string '200'
fallback_accepted_String(status) == FALSE

\* requests.post(...).status_code == 200
fallback_accepted(status) == status = 200

\* ------------------------------------------------------------------ state
VARIABLES
    retiring_number,  \* SendNotification.retiring_number
    max_msg_size,     \* SendNotification.max_msg_size
    test_env,         \* SendNotification.test_env
    pc,               \* "idle", "split", "loop", "primary", "fallback", "done", "raised"
    err,              \* the exception that reached the caller, "none" if none
    send_func,        \* the bound send method of the running call
    message, amend, emergency_msg,   \* the running call's arguments
    msg_list,         \* the pages of the running call
    idx,              \* position in msg_list of the page being delivered
    res,              \* the local res of __send_message_pagination
    calls,            \* invocations of send_func for the current page
    first200,         \* which of them was first answered with status 200, 0 if none
    primRaised,       \* whether an attempt on the current page raised
    fbCalls,          \* fallback requests made for the current page
    fbFirst200,       \* which of them was first answered 200, 0 if none
    accepted,         \* pages __check_status classified accepted, in order
    got200,           \* pages some primary attempt answered with status 200
    fbPages,          \* pages the fallback was requested for, in order
    lastReq,          \* the arguments of the latest send_func invocation
    lastFb            \* the text of the latest fallback request

\* the state of the group-name client (src/web_app_notifier_client.py) and of
\* the helpers of src/utils.py: the two redis servers, the callers and the bot API
VARIABLES
    srv2,             \* the store redis_server2 is: 1 when it is redis_server1 itself
    redis,            \* the contents of the stores 1 and 2
    procs,            \* per caller: where it is in its call, and the call's locals
    bot,              \* texts handed to the bot API, one per utils.send_message call
    uuid,             \* uuid4 values drawn so far
    hist              \* the finished calls, in the order they finished

pipeline_vars == <<retiring_number, max_msg_size, test_env, pc, err, send_func, message,
          amend, emergency_msg, msg_list, idx, res, calls, first200, primRaised,
          fbCalls, fbFirst200, accepted, got200, fbPages, lastReq, lastFb>>

utils_vars == <<srv2, redis, procs, bot, uuid, hist>>

vars == <<pipeline_vars, utils_vars>>

config == <<retiring_number, max_msg_size, test_env>>
page_counters == <<calls, first200, primRaised, fbCalls, fbFirst200>>
call_log == <<accepted, got200, fbPages, lastReq, lastFb>>

NoReq == [page |-> 0, text |-> <<>>, amend |-> None]

\* ------------------------------------------------- stores and callers
\* the message texts and the callers of the gate and of the alert helpers
Texts == {Body(1), Body(2)}
Procs == {1, 2}

\* a redis server as the helpers use it, per message text (the receiver is the
\* same in every call; sha256 is taken to be injective, so a key is known by
\* the text it is the hash of):
\*   setting[t]  sending_threshold_number stored under sha256(t_setting), 0 if absent
\*   entries[t]  the uuids u of the live keys sha256(t_receiver)-u
\*   counter[t]  the value under the alert key sha256(t)-receiver (absent reads 0)
\*   marker[t]   whether the key <alert key>-expire is live
\*   cached      whether the group name has an id stored
EmptyStore ==
    [setting |-> [t \in Texts |-> 0],
     entries |-> [t \in Texts |-> {}],
     counter |-> [t \in Texts |-> 0],
     marker  |-> [t \in Texts |-> FALSE],
     cached  |-> FALSE]

\* a caller outside any call
IdleProc ==
    [pc |-> "idle", op |-> "none", text |-> <<>>, amend |-> None, keys |-> {},
     setting |-> 0, count |-> 0, reqs |-> 0, out |-> <<>>, after |-> "none",
     snap |-> EmptyStore, tries |-> 0, poll |-> <<>>, first |-> 0]

\* GlobalVariables before any call, empty stores
UtilsIdle ==
    /\ redis = [i \in {1, 2} |-> EmptyStore]
    /\ procs = [p \in Procs |-> IdleProc]
    /\ bot = <<>>
    /\ uuid = 0
    /\ hist = <<>>

\* SendNotification.__init__
Init ==
    /\ srv2 = 1
    /\ UtilsIdle
    /\ retiring_number \in 0..MaxRetry
    /\ max_msg_size \in MinSize..MaxSize
    /\ test_env \in BOOLEAN
    /\ pc = "idle"
    /\ err = "none"
    /\ send_func = "send_alert"
    /\ message = <<>>
    /\ amend = None
    /\ emergency_msg = None
    /\ msg_list = <<>>
    /\ idx = 0
    /\ res = NoResult
    /\ calls = 0
    /\ first200 = 0
    /\ primRaised = FALSE
    /\ fbCalls = 0
    /\ fbFirst200 = 0
    /\ accepted = <<>>
    /\ got200 = {}
    /\ fbPages = <<>>
    /\ lastReq = NoReq
    /\ lastFb = <<>>

\* the page the for loop of __send_message_pagination is at
Msg == msg_list[idx]

\* lengths of the messages passed to the send operations
CallLens == {0, 1, MaxMsgLen \div 2, MaxMsgLen}
CallMessages == {Body(n) : n \in CallLens}

\* -------------------------------------------- __send_message_pagination
\* the body of a send operation up to the for loop: the test_env return,
\* else res = 0 and the pages of __split_msg (or its exception).  No operation
\* writes a field of the object, so a later call starts where the first one
\* does: a behaviour follows one call.
Pagination(f, m, a, e) ==
    /\ pc = "idle"
    /\ send_func' = f
    /\ message' = m
    /\ amend' = a
    /\ emergency_msg' = e
    /\ idx' = 0
    /\ calls' = 0
    /\ first200' = 0
    /\ primRaised' = FALSE
    /\ fbCalls' = 0
    /\ fbFirst200' = 0
    /\ accepted' = <<>>
    /\ got200' = {}
    /\ fbPages' = <<>>
    /\ lastReq' = NoReq
    /\ lastFb' = <<>>
    /\ IF test_env
       THEN /\ pc' = "done"
            /\ err' = "none"
            /\ res' = NoResult
            /\ msg_list' = <<>>
       ELSE IF SplitRaises(max_msg_size, a, e)
       THEN /\ pc' = "raised"
            /\ err' = "config"
            /\ res' = NoResult
            /\ msg_list' = <<>>
       ELSE /\ pc' = "loop"
            /\ err' = "none"
            /\ res' = IntResult(0)
            /\ msg_list' = split_msg(m, max_msg_size, a, e)
    /\ UNCHANGED <<utils_vars, config>>

\* the emergency_msg a send operation takes when the caller passes none:
\* '' for send_alert and send_message_by_threshold, None for send_message
DefaultEmergency(f) == IF f = "send_message" THEN None ELSE Str(<<>>)

send_alert(m, a, e) == Pagination("send_alert", m, a, e)

send_message(m, a, e) == Pagination("send_message", m, a, e)

send_message_by_threshold(m, a, e) == Pagination("send_message_by_threshold", m, a, e)

\* mutant: a page that was not accepted is dropped
Escalate_Skips(msg) == pc' = "loop" /\ err' = err

\* line 283 for page msg: msg.message() is evaluated (and may raise, outside
\* the try) before __send_emergency_message starts its loop
Escalate(msg) ==
    IF MessageRaises(msg)
    THEN pc' = "raised" /\ err' = "TypeError"
    ELSE pc' = "fallback" /\ err' = err

\* for msg in msg_list: the next page; with retiring_number = 0 the inner
\* loop has no iteration and the page goes to line 283 at once
NextPage ==
    /\ pc = "loop"
    /\ idx < Len(msg_list)
    /\ idx' = idx + 1
    /\ calls' = 0
    /\ first200' = 0
    /\ primRaised' = FALSE
    /\ fbCalls' = 0
    /\ fbFirst200' = 0
    /\ IF retiring_number = 0
       THEN Escalate(msg_list[idx + 1])
       ELSE pc' = "primary" /\ err' = err
    /\ UNCHANGED <<utils_vars, config, send_func, message, amend, emergency_msg, msg_list, res,
                   call_log>>

\* the for loop is over: return res
Return ==
    /\ pc = "loop"
    /\ idx = Len(msg_list)
    /\ pc' = "done"
    /\ UNCHANGED <<utils_vars, config, err, send_func, message, amend, emergency_msg, msg_list,
                   idx, res, page_counters, call_log>>

\* mutant: the retry loop runs one iteration too many
retry_left_OneMore(n, limit) == n <= limit

\* for _ in range(self.retiring_number): whether an iteration follows the n-th
retry_left(n, limit) == n < limit

\* one iteration of the retry loop in which send_func returns
PrimaryResponse(response) ==
    /\ pc = "primary"
    /\ ~MessageRaises(Msg)
    /\ LET r == send_func_result(send_func, response)
       IN  /\ res' = r
           /\ calls' = calls + 1
           /\ first200' = IF first200 = 0 /\ response.status = 200
                          THEN calls + 1 ELSE first200
           /\ got200' = IF response.status = 200
                        THEN got200 \cup {Msg.page} ELSE got200
           /\ lastReq' = [page |-> Msg.page, text |-> MessageText(Msg),
                          amend |-> Msg.amend]
           /\ IF check_status(r)
              THEN /\ accepted' = Append(accepted, Msg.page)
                   /\ pc' = "loop"
                   /\ err' = err
              ELSE /\ accepted' = accepted
                   /\ IF retry_left(calls + 1, retiring_number)
                      THEN pc' = "primary" /\ err' = err
                      ELSE Escalate(Msg)
    /\ UNCHANGED <<utils_vars, config, send_func, message, amend, emergency_msg, msg_list, idx,
                   primRaised, fbCalls, fbFirst200, fbPages, lastFb>>

\* one iteration in which send_func raises (requests, or response.json()):
\* the except clause around the whole retry loop takes it
PrimaryRaises ==
    /\ pc = "primary"
    /\ ~MessageRaises(Msg)
    /\ calls' = calls + 1
    /\ primRaised' = TRUE
    /\ lastReq' = [page |-> Msg.page, text |-> MessageText(Msg), amend |-> Msg.amend]
    /\ Escalate(Msg)
    /\ UNCHANGED <<utils_vars, config, send_func, message, amend, emergency_msg, msg_list, idx,
                   res, first200, fbCalls, fbFirst200, accepted, got200, fbPages,
                   lastFb>>

\* msg.message() raises at line 275, is caught at 281 and raises again at 283
PrimaryRenderRaises ==
    /\ pc = "primary"
    /\ MessageRaises(Msg)
    /\ primRaised' = TRUE
    /\ Escalate(Msg)
    /\ UNCHANGED <<utils_vars, config, send_func, message, amend, emergency_msg, msg_list, idx,
                   res, calls, first200, fbCalls, fbFirst200, call_log>>

\* ---------------------------------------------- __send_emergency_message
\* one iteration in which requests.post returns
FallbackResponse(status) ==
    /\ pc = "fallback"
    /\ fbCalls' = fbCalls + 1
    /\ fbFirst200' = IF fbFirst200 = 0 /\ status = 200 THEN fbCalls + 1 ELSE fbFirst200
    /\ fbPages' = IF fbCalls = 0 THEN Append(fbPages, Msg.page) ELSE fbPages
    /\ lastFb' = fallback_text(MessageText(Msg), Msg.amend)
    /\ pc' = IF fallback_accepted(status) \/ fbCalls + 1 = FallbackRetrying
             THEN "loop" ELSE "fallback"
    /\ UNCHANGED <<utils_vars, config, err, send_func, message, amend, emergency_msg, msg_list,
                   idx, res, calls, first200, primRaised, accepted, got200, lastReq>>

\* one iteration in which requests.post raises: nothing catches it
FallbackRaises ==
    /\ pc = "fallback"
    /\ fbCalls' = fbCalls + 1
    /\ fbPages' = IF fbCalls = 0 THEN Append(fbPages, Msg.page) ELSE fbPages
    /\ lastFb' = fallback_text(MessageText(Msg), Msg.amend)
    /\ pc' = "raised"
    /\ err' = "transport"
    /\ UNCHANGED <<utils_vars, config, send_func, message, amend, emergency_msg, msg_list, idx,
                   res, calls, first200, primRaised, fbFirst200, accepted, got200,
                   lastReq>>

Next ==
    \/ \E m \in CallMessages, a \in Amends, e \in Emergencies : send_alert(m, a, e)
    \/ \E m \in CallMessages, a \in Amends, e \in Emergencies : send_message(m, a, e)
    \/ \E m \in CallMessages, a \in Amends, e \in Emergencies :
           send_message_by_threshold(m, a, e)
    \/ NextPage
    \/ Return
    \/ \E response \in Responses : PrimaryResponse(response)
    \/ PrimaryRaises
    \/ PrimaryRenderRaises
    \/ \E status \in Statuses : FallbackResponse(status)
    \/ FallbackRaises

Spec == Init /\ [][Next]_vars

\* the call is synchronous code on one thread: a step that can be taken is taken
SpecLive == Spec /\ WF_vars(Next)

\* ------------------------------------------------- the splitter on its own
\* line 269 alone: __split_msg applied to the arguments of a call
Split(m, a, e) ==
    /\ pc = "idle"
    /\ message' = m
    /\ amend' = a
    /\ emergency_msg' = e
    /\ IF SplitRaises(max_msg_size, a, e)
       THEN /\ pc' = "raised"
            /\ err' = "config"
            /\ msg_list' = <<>>
       ELSE /\ pc' = "split"
            /\ err' = "none"
            /\ msg_list' = split_msg(m, max_msg_size, a, e)
    /\ UNCHANGED <<utils_vars, config, send_func, idx, res, page_counters, call_log>>

SplitNext == \E m \in Messages, a \in Amends, e \in Emergencies : Split(m, a, e)

SpecSplit == Init /\ [][SplitNext]_vars

\* =========================================================== src/utils.py
\* largest sending_threshold_number a setting is given
MaxThreshold == 3
\* calls a behaviour starts
MaxSends == 5
\* calls two concurrent callers start in a behaviour
MaxRaceSends == 4
\* set_threshold_setting calls in a behaviour
MaxSettings == 1

\* " count: " after a newline, as send_alert and the gate append it
CountLabel == <<10, 32, 99, 111, 117, 110, 116, 58, 32>>
\* message + f'\n count: {n}'
with_count(text, n) == text \o CountLabel \o Digits(n)

\* utils.send_message: retrying = 5
UtilsRetrying == 5
\* data['text'] of utils.send_message
utils_text(text, a) == FbMessageLabel \o text \o FbAmendLabel \o PyStr(a)
\* an int compared with a str: never equal
IntEqualsString(n, str) == FALSE
\* mutant: the status code compared with the integer 200
utils_accepted_Int(status) == status = 200

\* requests.post(...).status_code == '200'
utils_accepted(status) == IntEqualsString(status, "200")

\* REDIS_SERVER is redis_server1 and REDIS_SERVER_THRESHOLD is redis_server2
REDIS_SERVER == 1
REDIS_SERVER_THRESHOLD == srv2

\* calls started so far: the finished ones and the running ones
IsCall(h) == h.ev = "call"
IsSetting(h) == h.ev = "setting"
Started == Len(SelectSeq(hist, IsCall)) + Cardinality({p \in Procs : procs[p].pc # "idle"})

\* a call of caller p ends with result r: its locals go into the history
Finish(p, pr, r) ==
    /\ procs' = [procs EXCEPT ![p] = IdleProc]
    /\ hist' = Append(hist, [ev |-> "call", proc |-> p, op |-> pr.op, text |-> pr.text,
                             result |-> r, keys |-> pr.keys, setting |-> pr.setting,
                             count |-> pr.count, out |-> pr.out])

\* mutant: a missing setting is not noticed
no_setting_Never(number) == FALSE

\* not message_setting: get_threshold_setting returned None
no_setting(number) == number = 0

\* mutant: the gate admits only above the threshold
threshold_reached_Above(n, number) == n > number

\* len(keys) >= message_setting['sending_threshold_number']
threshold_reached(n, number) == n >= number

\* set_threshold_setting(message, number, time): one SET on redis_server2
set_threshold_setting(t, number) ==
    /\ \A p \in Procs : procs[p].pc = "idle"
    /\ redis[REDIS_SERVER_THRESHOLD].setting[t] # number
    /\ Len(SelectSeq(hist, IsSetting)) < MaxSettings
    /\ redis' = [redis EXCEPT ![REDIS_SERVER_THRESHOLD].setting[t] = number]
    /\ hist' = Append(hist, [ev |-> "setting", text |-> t, number |-> number])
    /\ UNCHANGED <<pipeline_vars, srv2, procs, bot, uuid>>

\* a gated send starts: set_message_data(message, receiver_id), then
\* check_condition_send_message(message, receiver_id, amend)
gated_send(p, t, a) ==
    /\ procs[p].pc = "idle"
    /\ procs' = [procs EXCEPT ![p] = [IdleProc EXCEPT !.pc = "smd_get", !.op = "gated",
                                                     !.text = t, !.amend = a]]
    /\ UNCHANGED <<pipeline_vars, srv2, redis, bot, uuid, hist>>

\* check_condition_send_message(message, receiver_id, amend) called on its own
check_condition_send_message(p, t, a) ==
    /\ procs[p].pc = "idle"
    /\ procs' = [procs EXCEPT ![p] = [IdleProc EXCEPT !.pc = "chk_keys", !.op = "check",
                                                     !.text = t, !.amend = a]]
    /\ UNCHANGED <<pipeline_vars, srv2, redis, bot, uuid, hist>>

\* set_message_data: setting = get_threshold_setting(message)
SmdGetSetting(p) ==
    /\ procs[p].pc = "smd_get"
    /\ procs' = [procs EXCEPT ![p].setting = redis[REDIS_SERVER_THRESHOLD].setting[procs[p].text],
                              ![p].pc = "smd_set"]
    /\ UNCHANGED <<pipeline_vars, srv2, redis, bot, uuid, hist>>

\* set_message_data: the SET of <alert_key>-<uuid4> with the setting's expiry;
\* setting['sending_threshold_time'] is a TypeError when there is no setting
SmdSetEntry(p) ==
    /\ procs[p].pc = "smd_set"
    /\ uuid' = uuid + 1
    /\ IF procs[p].setting = 0
       THEN /\ Finish(p, procs[p], "TypeError")
            /\ redis' = redis
       ELSE /\ redis' = [redis EXCEPT ![REDIS_SERVER_THRESHOLD].entries[procs[p].text] =
                                          @ \cup {uuid + 1}]
            /\ procs' = [procs EXCEPT ![p].pc = "chk_keys", ![p].setting = 0]
            /\ hist' = hist
    /\ UNCHANGED <<pipeline_vars, srv2, bot>>

\* check_condition_send_message: keys = REDIS_SERVER.keys(f'{alert_key}-*')
ChkKeys(p) ==
    /\ procs[p].pc = "chk_keys"
    /\ procs' = [procs EXCEPT ![p].keys = redis[REDIS_SERVER].entries[procs[p].text],
                              ![p].pc = "chk_get"]
    /\ UNCHANGED <<pipeline_vars, srv2, redis, bot, uuid, hist>>

\* check_condition_send_message: message_setting = get_threshold_setting(message)
\* and the decision taken on it and on len(keys)
ChkDecide(p) ==
    /\ procs[p].pc = "chk_get"
    /\ LET number == redis[REDIS_SERVER_THRESHOLD].setting[procs[p].text]
           n == Cardinality(procs[p].keys)
           pr == [procs[p] EXCEPT !.setting = number, !.count = n]
       IN  IF no_setting(number)
           THEN /\ procs' = [procs EXCEPT ![p] = [pr EXCEPT !.pc = "send", !.out = pr.text,
                                                            !.after = "return_true"]]
                /\ hist' = hist
           ELSE IF threshold_reached(n, number)
           THEN /\ procs' = [procs EXCEPT ![p] = [pr EXCEPT !.pc = "send",
                                                            !.out = with_count(pr.text, n),
                                                            !.after = "chk_del"]]
                /\ hist' = hist
           ELSE Finish(p, pr, "False")
    /\ UNCHANGED <<pipeline_vars, srv2, redis, bot, uuid>>

\* utils.send_message: one iteration in which requests.post returns
BotResponse(p, status) ==
    /\ procs[p].pc = "send"
    /\ bot' = IF procs[p].reqs = 0
              THEN Append(bot, utils_text(procs[p].out, procs[p].amend)) ELSE bot
    /\ LET pr == [procs[p] EXCEPT !.reqs = @ + 1,
                                  !.first = IF procs[p].reqs = 0 THEN status ELSE @]
       IN  IF utils_accepted(status) \/ pr.reqs = UtilsRetrying
           THEN procs' = [procs EXCEPT ![p] = [pr EXCEPT !.pc = pr.after]]
           ELSE procs' = [procs EXCEPT ![p] = pr]
    /\ UNCHANGED <<pipeline_vars, srv2, redis, uuid, hist>>

\* utils.send_message: one iteration in which requests.post raises
BotRaises(p) ==
    /\ procs[p].pc = "send"
    /\ bot' = IF procs[p].reqs = 0
              THEN Append(bot, utils_text(procs[p].out, procs[p].amend)) ELSE bot
    /\ Finish(p, procs[p], "transport")
    /\ UNCHANGED <<pipeline_vars, srv2, redis, uuid>>

\* check_condition_send_message: REDIS_SERVER.delete(*keys), return True
ChkDelete(p) ==
    /\ procs[p].pc = "chk_del"
    /\ redis' = [redis EXCEPT ![REDIS_SERVER].entries[procs[p].text] = @ \ procs[p].keys]
    /\ Finish(p, procs[p], "True")
    /\ UNCHANGED <<pipeline_vars, srv2, bot, uuid>>

\* check_condition_send_message: return True on the branch without a setting
ReturnTrue(p) ==
    /\ procs[p].pc = "return_true"
    /\ Finish(p, procs[p], "True")
    /\ UNCHANGED <<pipeline_vars, srv2, redis, bot, uuid>>

\* the steps of a running call of caller p
GateStep(p) ==
    \/ SmdGetSetting(p)
    \/ SmdSetEntry(p)
    \/ ChkKeys(p)
    \/ ChkDecide(p)
    \/ \E status \in Statuses : BotResponse(p, status)
    \/ BotRaises(p)
    \/ ChkDelete(p)
    \/ ReturnTrue(p)

\* the message the gate is called with
GateTexts == {Body(1)}

\* the paginating client is in no call
PipelineIdle ==
    /\ max_msg_size = MinSize
    /\ test_env = FALSE
    /\ pc = "idle"
    /\ err = "none"
    /\ send_func = "send_alert"
    /\ message = <<>>
    /\ amend = None
    /\ emergency_msg = None
    /\ msg_list = <<>>
    /\ idx = 0
    /\ res = NoResult
    /\ calls = 0
    /\ first200 = 0
    /\ primRaised = FALSE
    /\ fbCalls = 0
    /\ fbFirst200 = 0
    /\ accepted = <<>>
    /\ got200 = {}
    /\ fbPages = <<>>
    /\ lastReq = NoReq
    /\ lastFb = <<>>

\* the constructor is given one store for both servers, or two stores
InitGate ==
    /\ retiring_number = 0
    /\ PipelineIdle
    /\ srv2 \in {1, 2}
    /\ UtilsIdle

\* one caller: each call starts when the one before has ended; the entries
\* live for sending_threshold_time, and the calls are made within it
GateNext ==
    \/ \E t \in GateTexts, number \in 1..MaxThreshold : set_threshold_setting(t, number)
    \/ Started < MaxSends /\ \E t \in GateTexts : gated_send(1, t, None)
    \/ Started < MaxSends /\ \E t \in GateTexts : check_condition_send_message(1, t, None)
    \/ GateStep(1)

SpecGate == InitGate /\ [][GateNext]_vars

\* the steps of a gated send that found the setting in set_message_data
RaceStep(p) ==
    \/ SmdGetSetting(p)
    \/ SmdSetEntry(p)
    \/ ChkKeys(p)
    \/ ChkDecide(p)
    \/ \E status \in Statuses : BotResponse(p, status)
    \/ BotRaises(p)
    \/ ChkDelete(p)

\* a threshold was set for the message before the two callers start
InitRace ==
    /\ retiring_number = 0
    /\ PipelineIdle
    /\ srv2 \in {1, 2}
    /\ \E number \in 1..MaxThreshold :
           redis = [i \in {1, 2} |->
                       IF i = srv2
                       THEN [EmptyStore EXCEPT !.setting = [t \in Texts |->
                                                             IF t \in GateTexts THEN number ELSE 0]]
                       ELSE EmptyStore]
    /\ procs = [p \in Procs |-> IdleProc]
    /\ bot = <<>>
    /\ uuid = 0
    /\ hist = <<>>

\* two callers: their calls overlap, one store operation at a time
RaceNext ==
    \/ Started < MaxRaceSends /\ \E p \in Procs, t \in GateTexts : gated_send(p, t, None)
    \/ \E p \in Procs : RaceStep(p)

SpecRace == InitRace /\ [][RaceNext]_vars

\* ------------------------------------------------------ utils.send_alert
\* send_alert calls in a behaviour
MaxAlerts == 4

\* mutant: INCR leaves the counter as it is
incr_NoChange(n) == n

\* REDIS_SERVER.incr(alert_key): a missing key counts as 0
incr(n) == n + 1

\* mutant: the marker is never seen
marker_absent_Always(v) == TRUE

\* REDIS_SERVER.get(f'{alert_key}-expire') is None
marker_absent(v) == ~v

\* send_alert(text, receiver_id, amend) starts
utils_send_alert(p, t, a) ==
    /\ procs[p].pc = "idle"
    /\ procs' = [procs EXCEPT ![p] = [IdleProc EXCEPT !.pc = "al_incr", !.op = "alert",
                                                     !.text = t, !.amend = a,
                                                     !.snap = redis[REDIS_SERVER]]]
    /\ UNCHANGED <<pipeline_vars, srv2, redis, bot, uuid, hist>>

\* send_alert: alert_count = REDIS_SERVER.incr(alert_key)
AlIncr(p) ==
    /\ procs[p].pc = "al_incr"
    /\ redis' = [redis EXCEPT ![REDIS_SERVER].counter[procs[p].text] = incr(@)]
    /\ procs' = [procs EXCEPT ![p].count = incr(redis[REDIS_SERVER].counter[procs[p].text]),
                              ![p].pc = "al_get"]
    /\ UNCHANGED <<pipeline_vars, srv2, bot, uuid, hist>>

\* send_alert: the GET of the marker and the branch on it
AlGetMarker(p) ==
    /\ procs[p].pc = "al_get"
    /\ IF marker_absent(redis[REDIS_SERVER].marker[procs[p].text])
       THEN /\ procs' = [procs EXCEPT ![p].pc = "send",
                                      ![p].out = with_count(procs[p].text, procs[p].count),
                                      ![p].after = "al_set"]
            /\ hist' = hist
       ELSE Finish(p, procs[p], "None")
    /\ UNCHANGED <<pipeline_vars, srv2, redis, bot, uuid>>

\* send_alert: REDIS_SERVER.set(f'{alert_key}-expire', 'true', ex=ALERT_DELAY)
AlSetMarker(p) ==
    /\ procs[p].pc = "al_set"
    /\ redis' = [redis EXCEPT ![REDIS_SERVER].marker[procs[p].text] = TRUE]
    /\ procs' = [procs EXCEPT ![p].pc = "al_reset"]
    /\ UNCHANGED <<pipeline_vars, srv2, bot, uuid, hist>>

\* send_alert: REDIS_SERVER.set(alert_key, 0), and the return
AlReset(p) ==
    /\ procs[p].pc = "al_reset"
    /\ redis' = [redis EXCEPT ![REDIS_SERVER].counter[procs[p].text] = 0]
    /\ Finish(p, procs[p], "None")
    /\ UNCHANGED <<pipeline_vars, srv2, bot, uuid>>

\* ALERT_DELAY seconds after the marker was set the store drops it
ExpireMarker(t) ==
    /\ redis[REDIS_SERVER].marker[t]
    /\ redis' = [redis EXCEPT ![REDIS_SERVER].marker[t] = FALSE]
    /\ UNCHANGED <<pipeline_vars, srv2, procs, bot, uuid, hist>>

\* the steps of a running send_alert of caller p
AlertStep(p) ==
    \/ AlIncr(p)
    \/ AlGetMarker(p)
    \/ \E status \in Statuses : BotResponse(p, status)
    \/ BotRaises(p)
    \/ AlSetMarker(p)
    \/ AlReset(p)

\* one caller sends alerts, one after the other
AlertNext ==
    \/ Started < MaxAlerts /\ \E t \in Texts : utils_send_alert(1, t, None)
    \/ AlertStep(1)
    \/ \E t \in Texts : ExpireMarker(t)

SpecAlert == InitGate /\ [][AlertNext]_vars

\* send_alert calls two concurrent callers start in a behaviour
MaxRaceAlerts == 3

\* two callers send alerts of one key: their calls overlap, one store
\* operation or one bot request at a time
AlertRaceNext ==
    \/ Started < MaxRaceAlerts /\ \E p \in Procs, t \in GateTexts : utils_send_alert(p, t, None)
    \/ \E p \in Procs : AlertStep(p)
    \/ \E t \in GateTexts : ExpireMarker(t)

SpecAlertRace == InitGate /\ [][AlertRaceNext]_vars

\* ------------------------------------- src/web_app_notifier_client.py
\* calls of the group-name client in a behaviour
MaxGroupCalls == 2
\* updates in one getUpdates answer
MaxUpdates == 2

\* 'failed to send by th:'
FailedLabel == <<102, 97, 105, 108, 101, 100, 32, 116, 111, 32, 115, 101, 110, 100, 32, 98, 121, 32, 116, 104, 58>>

\* what an update of getUpdates can be: a chat with the group's title, a chat
\* with another title, a chat without title, no 'chat', neither
\* 'my_chat_member' nor 'message'
UpdateKinds == {"match", "other", "notitle", "nochat", "nodata"}
Polls == UNION {[1..n -> UpdateKinds] : n \in 0..MaxUpdates}

\* mutant: any update resolves the group
process_telegram_info_AnyUpdate(poll, i) == IF Len(poll) >= i THEN "id" ELSE "None"

\* process_telegram_info: the id, None, or the error of the first update
\* that ends the loop
RECURSIVE process_telegram_info(_, _)
process_telegram_info(poll, i) ==
    IF i > Len(poll) THEN "None"
    ELSE IF poll[i] = "nodata" THEN "AttributeError"
    ELSE IF poll[i] = "nochat" THEN process_telegram_info(poll, i + 1)
    ELSE IF poll[i] = "notitle" THEN "KeyError"
    ELSE IF poll[i] = "match" THEN "id"
    ELSE process_telegram_info(poll, i + 1)

\* SendNotification.send_alert / send_message / send_message_by_threshold start
group_send(p, f, t, a) ==
    /\ procs[p].pc = "idle"
    /\ procs' = [procs EXCEPT ![p] = [IdleProc EXCEPT !.pc = "g_loop", !.op = f, !.text = t,
                                                     !.amend = a,
                                                     !.snap = redis[REDIS_SERVER]]]
    /\ UNCHANGED <<pipeline_vars, srv2, redis, bot, uuid, hist>>

\* one iteration of for i in range(self.retiring_number) in which the
\* primary answers
GroupPrimaryResponse(p, response) ==
    /\ procs[p].pc = "g_loop"
    /\ retry_left(procs[p].tries, retiring_number)
    /\ IF send_func_result(procs[p].op, response).status = 200
       THEN Finish(p, procs[p], "200")
       ELSE /\ procs' = [procs EXCEPT ![p].tries = @ + 1]
            /\ hist' = hist
    /\ UNCHANGED <<pipeline_vars, srv2, redis, bot, uuid>>

\* one iteration in which requests.post raises
GroupPrimaryRaises(p) ==
    /\ procs[p].pc = "g_loop"
    /\ retry_left(procs[p].tries, retiring_number)
    /\ Finish(p, procs[p], "transport")
    /\ UNCHANGED <<pipeline_vars, srv2, redis, bot, uuid>>

\* the fallback of the three operations, once the receiver id is known
GroupFallback(p) ==
    IF procs[p].op = "send_alert"
    THEN [procs[p] EXCEPT !.pc = "al_incr"]
    ELSE [procs[p] EXCEPT !.pc = "send", !.after = "g_return",
                          !.out = IF procs[p].op = "send_message_by_threshold"
                                  THEN procs[p].text \o FailedLabel ELSE procs[p].text]

\* get_set_telegram_group_id: REDIS_SERVER.get(group_name) after the loop
GroupGetCached(p) ==
    /\ procs[p].pc = "g_loop"
    /\ ~retry_left(procs[p].tries, retiring_number)
    /\ procs' = [procs EXCEPT ![p] = IF redis[REDIS_SERVER].cached
                                     THEN GroupFallback(p)
                                     ELSE [procs[p] EXCEPT !.pc = "g_poll"]]
    /\ UNCHANGED <<pipeline_vars, srv2, redis, bot, uuid, hist>>

\* get_set_telegram_group_id: getUpdates raises, or answers with ok false
GroupPollFails(p) ==
    /\ procs[p].pc = "g_poll"
    /\ Finish(p, procs[p], "PollException")
    /\ UNCHANGED <<pipeline_vars, srv2, redis, bot, uuid>>

\* get_set_telegram_group_id: getUpdates answers with ok true and its updates
GroupPoll(p, poll) ==
    /\ procs[p].pc = "g_poll"
    /\ procs' = [procs EXCEPT ![p].pc = "g_process", ![p].poll = poll]
    /\ UNCHANGED <<pipeline_vars, srv2, redis, bot, uuid, hist>>

\* get_set_telegram_group_id: process_telegram_info and what follows it
GroupProcess(p) ==
    /\ procs[p].pc = "g_process"
    /\ LET chat_id == process_telegram_info(procs[p].poll, 1)
       IN  IF chat_id = "id"
           THEN /\ redis' = [redis EXCEPT ![REDIS_SERVER].cached = TRUE]
                /\ procs' = [procs EXCEPT ![p] = [GroupFallback(p) EXCEPT !.poll = <<>>]]
                /\ hist' = hist
           ELSE /\ Finish(p, procs[p], IF chat_id = "None" THEN "Exception" ELSE chat_id)
                /\ redis' = redis
    /\ UNCHANGED <<pipeline_vars, srv2, bot, uuid>>

\* send_message / send_message_by_threshold: the end after utils.send_message
GroupReturn(p) ==
    /\ procs[p].pc = "g_return"
    /\ Finish(p, procs[p], "None")
    /\ UNCHANGED <<pipeline_vars, srv2, redis, bot, uuid>>

\* the steps of a running call of the group-name client
GroupStep(p) ==
    \/ \E response \in Responses : GroupPrimaryResponse(p, response)
    \/ GroupPrimaryRaises(p)
    \/ GroupGetCached(p)
    \/ GroupPollFails(p)
    \/ \E poll \in Polls : GroupPoll(p, poll)
    \/ GroupProcess(p)
    \/ GroupReturn(p)
    \/ AlertStep(p)

InitGroup ==
    /\ retiring_number \in 0..MaxRetry
    /\ PipelineIdle
    /\ srv2 \in {1, 2}
    /\ UtilsIdle

\* one caller uses the group-name client, one call after the other
GroupNext ==
    \/ Started < MaxGroupCalls /\ \E f \in SendFuncs : group_send(1, f, Body(1), None)
    \/ GroupStep(1)
    \/ ExpireMarker(Body(1))

SpecGroup == InitGroup /\ [][GroupNext]_vars

\* ================================================================ claims
Range(seq) == {seq[i] : i \in 1..Len(seq)}

\* the page numbers of the running call, in page order
PageNumbers == [i \in 1..Len(msg_list) |-> msg_list[i].page]

NotAnswered200(p) == p \notin got200

\* whether sub occurs in s as a run of consecutive characters
Contains(s, sub) ==
    \E i \in 1..(Len(s) - Len(sub) + 1) : SubSeq(s, i, i + Len(sub) - 1) = sub

RECURSIVE ConcatBodies(_)
ConcatBodies(pages) ==
    IF pages = <<>> THEN <<>> ELSE Head(pages).content \o ConcatBodies(Tail(pages))

\* len(mandatory_msg) as the claims describe it: the two labels and the
\* serialized emergency annotation and amendment of the running call
Reserved ==
    Len(EmergencyLabel) + Len(PyStr(emergency_msg)) + Len(AmendLabel) + Len(PyStr(amend))

\* C1: the pages the fallback is requested for are exactly the pages no
\* primary attempt answered with status 200, in increasing page order, and a
\* page the primary answered 200 for is never sent to the fallback.
C1_FallbackGetsExactlyUndelivered ==
    /\ \A p \in Range(fbPages) : p \notin got200
    /\ pc = "done" /\ ~test_env => fbPages = SelectSeq(PageNumbers, NotAnswered200)

\* C2: when the k-th response for the current page is the first with status
\* 200, the send function is invoked exactly k times for the page, the page
\* is accepted and no fallback request is made for it.
C2_StopsAtFirst200 ==
    first200 > 0 =>
        /\ calls = first200
        /\ Msg.page \in Range(accepted)
        /\ pc # "fallback"
        /\ fbCalls = 0

\* C3: the fallback is tried for a page none of whose primary calls succeeded
\* only after the send function was invoked exactly retiring_number times,
\* and the page is not accepted.
C3_FailingSendUsesWholeBudget ==
    (idx >= 1 /\ first200 = 0 /\ (pc = "fallback" \/ fbCalls > 0)) =>
        /\ calls = retiring_number
        /\ Msg.page \notin Range(accepted)

\* C4: an attempt on which the send function raises counts as one failed
\* attempt and the rest of the page's retry budget is still used: the page
\* leaves the primary only accepted or after retiring_number invocations.
C4_RaiseKeepsRetrying ==
    (idx >= 1 /\ primRaised /\ ~MessageRaises(Msg) /\ pc # "primary") =>
        \/ Msg.page \in Range(accepted)
        \/ calls = retiring_number

\* C5: for send_message_by_threshold a page is accepted if and only if some
\* response for it had status 200 (whatever the queued flag), and such a page
\* is neither offered to the primary again nor escalated to the fallback.
C5_ThresholdAcceptedIff200 ==
    send_func = "send_message_by_threshold" =>
        /\ \A p \in 1..idx : (p \in Range(accepted)) <=> (p \in got200)
        /\ \A p \in got200 : p \notin Range(fbPages)
        /\ (idx >= 1 /\ first200 > 0) => calls = first200

\* C6: a page gets at most FallbackRetrying fallback requests, the requests
\* stop at the first response with status 200 (their number is that
\* response's position), and after FallbackRetrying responses none of which
\* is 200 no error is raised and the loop goes on with the next page (or
\* returns after the last one).
C6_FallbackBoundedAndSilent ==
    /\ fbCalls <= FallbackRetrying
    /\ fbFirst200 > 0 => fbCalls = fbFirst200 /\ pc # "fallback"
    /\ (fbCalls = FallbackRetrying /\ fbFirst200 = 0 /\ err # "transport") =>
           /\ pc \in {"loop", "done"}
           /\ err = "none"
           /\ (pc = "loop" /\ idx < Len(msg_list)) => ENABLED NextPage

\* C6 witness: five fallback answers, none 200, and a next page to go on with
C6_Witness ==
    /\ fbCalls = FallbackRetrying
    /\ fbFirst200 = 0
    /\ pc = "loop"
    /\ idx < Len(msg_list)

\* C7: no transport failure reaches the caller: a call never ends with the
\* exception of a primary or of a fallback request.
C7_NoTransportErrorReachesCaller == err # "transport"

\* C8: the bodies of the pages the splitter returns, concatenated in page
\* order, are the message.
C8_BodiesReconstructMessage ==
    pc = "split" => ConcatBodies(msg_list) = message

\* C8 witness: a split into three pages or more with an amendment and a
\* non-empty emergency annotation
C8_Witness ==
    /\ pc = "split"
    /\ Len(msg_list) >= 3
    /\ ~amend.none
    /\ ~emergency_msg.none /\ Len(emergency_msg.s) > 0

\* C9: page 1 is always there and holds the first max_msg_size - Reserved
\* characters; the remainder follows in order in pages 2, 3, ... of exactly
\* max_msg_size characters, but for the last, which is non-empty and no
\* longer; no body exceeds max_msg_size; an empty remainder gives page 1 alone.
C9_PageLayout ==
    pc = "split" =>
        LET n    == Len(msg_list)
            cap  == max_msg_size - Reserved
            from(i) == cap + (i - 2) * max_msg_size
        IN  /\ n >= 1
            /\ \A i \in 1..n : msg_list[i].page = i
            /\ msg_list[1].content = SubSeq(message, 1, Min(cap, Len(message)))
            /\ \A i \in 2..n :
                   msg_list[i].content =
                       SubSeq(message, from(i) + 1, Min(from(i) + max_msg_size, Len(message)))
            /\ \A i \in 2..(n - 1) : Len(msg_list[i].content) = max_msg_size
            /\ n >= 2 => Len(msg_list[n].content) >= 1
            /\ \A i \in 1..n : Len(msg_list[i].content) <= max_msg_size
            /\ Len(message) <= cap => n = 1

\* C9 witness: a remainder that fills two whole pages and part of a fourth
C9_Witness ==
    /\ pc = "split"
    /\ Len(msg_list) = 4
    /\ Len(msg_list[4].content) < max_msg_size

C11_ConfigErrorBeforeAnyRequest ==
    (pc # "idle" /\ ~test_env /\ max_msg_size < Reserved) =>
        /\ pc = "raised"
        /\ err = "config"
        /\ msg_list = <<>>
        /\ calls = 0
        /\ fbCalls = 0
        /\ lastReq = NoReq
        /\ fbPages = <<>>
        /\ lastFb = <<>>
        /\ ~ENABLED NextPage

\* C11 witness: a call that ended with the configuration error
C11_Witness ==
    /\ pc = "raised"
    /\ err = "config"
    /\ max_msg_size < Reserved

\* C12: what send_alert / send_message return is 200 only if the primary
\* accepted the final page, and is not 200 when every primary attempt on the
\* final page raised.
C12_ReturnIsFinalPageOutcome ==
    (pc = "done" /\ ~test_env /\ send_func # "send_message_by_threshold") =>
        /\ res.status = 200 => Msg.page \in Range(accepted)
        /\ (primRaised /\ calls = 1) => res.status # 200

\* C20: a call ends (returns or raises); a page gets at most retiring_number
\* primary requests and at most FallbackRetrying fallback requests; every
\* request is for the page the loop is at, and the loop leaves a page only
\* when the page was accepted or its fallback requests are over.
C20_PageBudget ==
    /\ calls <= retiring_number
    /\ fbCalls <= FallbackRetrying
    /\ lastReq.page <= idx
    /\ \A i \in 1..Len(fbPages) : fbPages[i] <= idx
    /\ \A i \in 1..Len(fbPages), j \in 1..Len(fbPages) : i < j => fbPages[i] < fbPages[j]

C20_PageFinished ==
    \/ Msg.page \in Range(accepted)
    \/ fbFirst200 > 0
    \/ fbCalls = FallbackRetrying

C20_TerminatesPageByPage ==
    /\ []C20_PageBudget
    /\ [][(idx' # idx /\ idx >= 1) => (idx' = idx + 1 /\ C20_PageFinished)]_vars
    /\ [][(pc' = "done" /\ pc # "done" /\ idx >= 1) => C20_PageFinished]_vars
    /\ <>(pc \in {"done", "raised"})

\* C20 witness: a call of two pages or more that returned after a page used
\* its whole primary budget and its whole fallback budget, no request raising
C20_Witness ==
    /\ pc = "done"
    /\ Len(msg_list) >= 2
    /\ retiring_number >= 1
    /\ calls = retiring_number
    /\ fbCalls = FallbackRetrying
    /\ fbFirst200 = 0
    /\ ~primRaised

\* ---------------------------------------------------------------- C13
\* the events after the first are gated sends that returned
OnlyGatedSends ==
    \A i \in 2..Len(hist) :
        hist[i].ev = "call" /\ hist[i].op = "gated" /\ hist[i].result \in {"True", "False"}

\* C13: with a threshold of 3 set for a message and then only gated sends of
\* it whose requests are answered, the 1st and 2nd send return False and
\* forward nothing, the 3rd returns True, is forwarded with " count: 3"
\* appended and leaves no counter entry of the key, and so on in threes
C13_EveryThirdSendAdmitted ==
    (/\ Len(hist) >= 1
     /\ hist[1].ev = "setting"
     /\ hist[1].number = 3
     /\ OnlyGatedSends)
    => \A i \in 2..Len(hist) :
           /\ hist[i].result = IF (i - 1) % 3 = 0 THEN "True" ELSE "False"
           /\ hist[i].result = "True" => hist[i].out = with_count(hist[i].text, 3)
           /\ (i = Len(hist) /\ procs[1].pc = "idle")
              => /\ Len(bot) = (i - 1) \div 3
                 /\ hist[i].result = "True"
                    => redis[REDIS_SERVER_THRESHOLD].entries[hist[i].text] = {}

\* ---------------------------------------------------------------- C14
\* C14: a call of the gate that finds no setting is never suppressed: when it
\* returns it returns True, and what it hands to the bot API is the message
\* as it was passed, whatever number of entries it counted and whatever calls
\* came before (a request that raises ends the call with that error)
C14_NoSettingAlwaysAdmits ==
    /\ \A i \in 1..Len(hist) :
           (hist[i].ev = "call" /\ hist[i].setting = 0 /\ hist[i].result # "TypeError")
           => /\ hist[i].result \in {"True", "transport"}
              /\ hist[i].out = hist[i].text
    /\ \A p \in Procs :
           (procs[p].pc \in {"send", "return_true", "chk_del"} /\ procs[p].setting = 0)
           => /\ procs[p].pc # "chk_del"
              /\ procs[p].out = procs[p].text
              /\ procs[p].reqs > 0
                 => \E j \in 1..Len(bot) : bot[j] = utils_text(procs[p].text, procs[p].amend)

C14_Witness ==
    \E i \in 3..Len(hist) :
        /\ hist[i].ev = "call" /\ hist[i].op = "check"
        /\ hist[i].setting = 0 /\ hist[i].result = "True"
        /\ hist[i - 1].ev = "call" /\ hist[i - 1].result = "True"
        /\ Len(bot) >= 2 /\ bot[Len(bot)] = utils_text(hist[i].text, None)

\* ---------------------------------------------------------------- C19
\* the gated sends that returned
Decided == {i \in 1..Len(hist) : hist[i].ev = "call" /\ hist[i].result \in {"True", "False"}}

\* C19: each of two concurrent gated sends decides on the entries its own
\* KEYS call returned, whatever the other caller does in between: it suppresses
\* exactly when it counted fewer than the threshold, and forwards with the
\* number it counted; two sends that forward on a common entry are never two
\* calls of one caller
C19_EachCallerDecidesOnItsOwnCount ==
    /\ \A i \in Decided :
           /\ hist[i].count = Cardinality(hist[i].keys)
           /\ hist[i].result = "False" <=> hist[i].count < hist[i].setting
           /\ hist[i].result = "True" => hist[i].out = with_count(hist[i].text, hist[i].count)
    /\ \A i, j \in Decided :
           (/\ i < j
            /\ hist[i].result = "True" /\ hist[j].result = "True"
            /\ hist[i].keys \cap hist[j].keys # {})
           => hist[i].proc # hist[j].proc

\* both interleavings in one behaviour: two callers that counted the same
\* number below the threshold and suppressed, and two callers that forwarded
\* on a common entry
C19_Witness ==
    /\ \E i, j \in Decided :
           /\ hist[i].proc # hist[j].proc
           /\ hist[i].result = "False" /\ hist[j].result = "False"
           /\ hist[i].count = hist[j].count
    /\ \E i, j \in Decided :
           /\ hist[i].proc # hist[j].proc
           /\ hist[i].result = "True" /\ hist[j].result = "True"
           /\ hist[i].setting >= 2
           /\ hist[i].keys \cap hist[j].keys # {}
           /\ Len(bot) >= 2

\* ---------------------------------------------------------------- C15
\* C15: a send_alert that finds the marker of its key live ends there: it
\* hands nothing to the bot API and writes nothing more, so that all it has
\* changed in the store since it started is the key's counter, by one
C15_LiveMarkerSuppresses ==
    [][\A p \in Procs :
           (/\ procs[p].pc = "al_get"
            /\ redis[REDIS_SERVER].marker[procs[p].text]
            /\ procs'[p] # procs[p])
           => /\ procs'[p].pc = "idle"
              /\ bot' = bot
              /\ redis' = redis
              /\ hist'[Len(hist')].out = <<>>
              /\ [redis[REDIS_SERVER] EXCEPT !.marker = procs[p].snap.marker]
                 = [procs[p].snap EXCEPT !.counter[procs[p].text] = @ + 1]]_vars

\* two alerts in a row were suppressed
C15_Witness ==
    \E i \in 1..Len(hist) :
        /\ hist[i].op = "alert" /\ hist[i].result = "None"
        /\ hist[i].out = <<>> /\ hist[i].count = 2
        /\ redis[REDIS_SERVER].counter[hist[i].text] = 2
        /\ redis[REDIS_SERVER].marker[hist[i].text]

\* ---------------------------------------------------------------- C16
\* a send_alert that handed its text to the bot API and returned
Forwarded(i) == hist[i].op = "alert" /\ hist[i].result = "None" /\ hist[i].out # <<>>
\* the forward of the same key before call i, 0 when there is none
PrevForward(i) ==
    LET before == {k \in 1..(i - 1) : Forwarded(k) /\ hist[k].text = hist[i].text}
    IN  IF before = {} THEN 0 ELSE CHOOSE k \in before : \A l \in before : l <= k
\* the send_alert calls of the key of call i since that forward, call i included
CallsSinceForward(i) ==
    Cardinality({k \in (PrevForward(i) + 1)..i : hist[k].op = "alert" /\ hist[k].text = hist[i].text})

\* C16: a send_alert that finds no marker forwards the text with the count
\* appended; the count is the number of send_alert calls of the key since the
\* previous forward, this one included, so 1 for the first alert of a key;
\* after the forward the marker is set and then the counter is put to 0
C16_ForwardCarriesCallsSinceLast ==
    /\ [](\A i \in 1..Len(hist) :
              Forwarded(i) => hist[i].out = with_count(hist[i].text, CallsSinceForward(i)))
    /\ [][\A p \in Procs :
              /\ (procs[p].pc = "al_get" /\ ~redis[REDIS_SERVER].marker[procs[p].text]
                  /\ procs'[p] # procs[p])
                 => /\ procs'[p].pc = "send"
                    /\ procs'[p].out = with_count(procs[p].text, procs[p].count)
              /\ (procs[p].pc = "al_set" /\ procs'[p] # procs[p])
                 => redis'[REDIS_SERVER].marker[procs[p].text]
              /\ (procs[p].pc = "al_reset" /\ procs'[p] # procs[p])
                 => redis'[REDIS_SERVER].counter[procs[p].text] = 0 /\ Forwarded(Len(hist))']_vars

\* the first alert of a key went out with count 1 and, after suppressed ones
\* and the end of the window, a later one with a higher count
C16_Witness ==
    \E i, j \in 1..Len(hist) :
        /\ i < j /\ Forwarded(i) /\ Forwarded(j)
        /\ hist[i].text = hist[j].text
        /\ PrevForward(i) = 0 /\ hist[i].count = 1
        /\ hist[j].out = with_count(hist[j].text, 3)
        /\ j = Len(hist)
        /\ redis[REDIS_SERVER].counter[hist[j].text] = 0
        /\ redis[REDIS_SERVER].marker[hist[j].text]

\* ---------------------------------------------------------------- C17
\* the getUpdates answer names the group
HasMatch(poll) == \E i \in 1..Len(poll) : poll[i] = "match"

\* C17: the group-name client looks up the receiver id, and goes on to the
\* fallback, only when each of its retiring_number primary requests has
\* returned a status other than 200; when no id is cached and the one poll
\* names no matching group, the call ends with an error, and it has made no
\* bot request and changed no counter
C17_UnresolvedReceiverFails ==
    /\ [](\A p \in Procs :
              /\ (procs[p].op \in SendFuncs /\ procs[p].pc \notin {"idle", "g_loop"})
                 => procs[p].tries = retiring_number
              /\ procs[p].pc \in {"g_poll", "g_process"}
                 => /\ ~redis[REDIS_SERVER].cached
                    /\ procs[p].reqs = 0
                    /\ redis[REDIS_SERVER] = procs[p].snap)
    /\ [][\A p \in Procs :
              /\ (procs[p].pc = "g_process" /\ ~HasMatch(procs[p].poll) /\ procs'[p] # procs[p])
                 => procs'[p].pc = "idle"
              /\ (procs[p].pc \in {"g_poll", "g_process"} /\ procs'[p].pc = "idle")
                 => /\ hist'[Len(hist')].result
                           \in {"Exception", "PollException", "AttributeError", "KeyError"}
                    /\ bot' = bot
                    /\ redis' = redis]_vars

\* a send_alert whose two primary requests were refused ended with the error
\* of the unresolved receiver, with nothing sent and nothing counted
C17_Witness ==
    /\ retiring_number = 2
    /\ Len(hist) = 1
    /\ hist[1].op = "send_alert" /\ hist[1].result = "Exception"
    /\ bot = <<>>
    /\ redis[REDIS_SERVER] = EmptyStore

\* ---------------------------------------------------------------- C18
\* C18: utils.send_message never leaves its loop early: whatever the bot API
\* answers, 200 included, the code after it runs when 5 requests were made
C18_AlwaysFiveFallbackRequests ==
    \A p \in Procs :
        /\ procs[p].pc = "send" => procs[p].reqs < 5
        /\ procs[p].pc \in {"g_return", "al_set", "al_reset"} => procs[p].reqs = 5

\* the first answer was 200 and the loop went on to the fifth request
C18_Witness ==
    /\ procs[1].op = "send_message"
    /\ procs[1].pc = "g_return"
    /\ procs[1].first = 200
    /\ procs[1].reqs = 5

\* ---------------------------------------------------------------- C21
\* a call of operation f that was passed the message alone, on an object
\* that retries and whose max_msg_size holds the reserved part
DefaultCall(f) ==
    /\ pc # "idle"
    /\ ~test_env
    /\ send_func = f
    /\ amend = None
    /\ emergency_msg = DefaultEmergency(f)
    /\ retiring_number >= 1
    /\ max_msg_size >= Reserved

\* such a call does not end with a TypeError; a page whose first answer is
\* 200 is offered once, accepted and not sent to the fallback; and when every
\* page was accepted the call returns 200 with no fallback request made
DefaultCallDelivers(f) ==
    DefaultCall(f) =>
        /\ err # "TypeError"
        /\ (idx >= 1 /\ first200 = 1) =>
               /\ calls = 1
               /\ Msg.page \in Range(accepted)
               /\ fbCalls = 0
        /\ (pc = "done" /\ accepted = PageNumbers) =>
               /\ res = IntResult(200)
               /\ fbPages = <<>>

\* C21: send_message(message), with amend and emergency_msg left to their
\* defaults, runs the pipeline as send_alert(message) does: with a primary
\* answering 200 each page is offered once, the call returns 200, raises
\* nothing and makes no fallback request
C21_DefaultSendMessageAsSendAlert ==
    /\ DefaultCallDelivers("send_alert")
    /\ DefaultCallDelivers("send_message")

\* ---------------------------------------------------------------- C22
\* C22: when a call returns, every page the splitter made was accepted by
\* the primary on an answer with status 200 or had a fallback request made
\* for it; with retiring_number = 0 each page had a fallback request
C22_NoPageSkipped ==
    pc = "done" =>
        /\ \A i \in 1..Len(msg_list) :
               \/ msg_list[i].page \in Range(accepted) /\ msg_list[i].page \in got200
               \/ msg_list[i].page \in Range(fbPages)
        /\ retiring_number = 0 => fbPages = PageNumbers

\* a call of several pages returned from an object that never tries the
\* primary
C22_Witness ==
    /\ pc = "done"
    /\ retiring_number = 0
    /\ Len(msg_list) >= 3
    /\ fbPages = PageNumbers
    /\ accepted = <<>>

\* ---------------------------------------------------------------- C23
\* caller p has handed the alert of its key to the bot API and its call is
\* still running
Forwarding(p) ==
    /\ procs[p].op = "alert"
    /\ \/ procs[p].pc = "send" /\ procs[p].reqs > 0
       \/ procs[p].pc \in {"al_set", "al_reset"}

\* C23: one key is never forwarded twice in one suppression window: no two
\* send_alert calls of a key are forwarding it at the same moment, and no
\* call sends the text to the bot API while the key's marker is live
C23_OneForwardPerWindow ==
    \A t \in Texts :
        /\ Cardinality({p \in Procs : procs[p].text = t /\ Forwarding(p)}) <= 1
        /\ redis[REDIS_SERVER].marker[t]
           => \A p \in Procs : ~(procs[p].op = "alert" /\ procs[p].text = t
                                 /\ procs[p].pc = "send")

====
